---- MODULE Spec2Model ----
(***************************************************************************)
(* Model of hmivar-webservice (src/webservice/src/index.js).               *)
(*                                                                         *)
(* The source file holds two variants of the service:                      *)
(*   - the relational variant (lines 1-246): uploads are rows of a         *)
(*     PostgreSQL table, every query goes through withRetries, and the     *)
(*     table is created once through the memoized ensureDb;                *)
(*   - the filesystem variant (lines 248-354): uploads are files of a      *)
(*     data directory and latest.json names the latest one.                *)
(*                                                                         *)
(* Four specifications:                                                    *)
(*   SpecRetry  withRetries alone, for every attempt budget 0..MaxAttempts *)
(*   Spec       the relational service with NumClients concurrent clients  *)
(*   SpecStore  the relational service with one client and any payload of  *)
(*              at most MaxLen bytes                                       *)
(*   SpecFs     the filesystem service with NumClients concurrent clients  *)
(* Every run receives at most MaxRequests requests.                        *)
(***************************************************************************)
EXTENDS Integers, Sequences, FiniteSets, TLC

VARIABLES
    rt,            \* SpecRetry: the withRetries call under test
    pool,          \* relational: TRUE iff DATABASE_URL is set (line 11)
    uploadToken,   \* UPLOAD_TOKEN (line 8 / 257), "" when not configured
    dbInitPromise, \* relational: line 21, Null or the memoized promise
    initStarts,    \* history: number of initializations ensureDb has started
    createInFlight,\* history: number of create-table queries sent, unanswered
    tableExists,   \* database: the uploads table exists
    uploads,       \* database: the rows of the uploads table, in commit order
    now,           \* database clock: the last reading now() gave an insert
    lastPut,       \* history: what the most recently committed put was given
    slot,          \* relational: per client, the request it is running
    files,         \* the files the clients of this run may upload
    started,       \* history: the number of requests received so far
    fsBlobs,       \* filesystem: the files of DATA_DIR, by name
    fsPointer,     \* filesystem: the text of latest.json, or Null
    fsClock,       \* filesystem: the last reading of the process clock
    fsSlot,        \* filesystem: per client, the request it is running
    fsLastPut,     \* history: the upload with a file that finished last
    fsOverlap,     \* history: two uploads have been written at the same time
    guessArg,      \* the argument of a call of guessDelimiterFromContent
    guessed        \* what that call returned, "" before it has

vars == <<rt, pool, uploadToken, dbInitPromise, initStarts, createInFlight,
          tableExists,
          uploads, now, lastPut, slot, files, started,
          fsBlobs, fsPointer, fsClock, fsSlot, fsLastPut, fsOverlap,
          guessArg, guessed>>

dbVars == <<pool, uploadToken, dbInitPromise, initStarts, createInFlight,
            tableExists,
            uploads, now, lastPut, slot, files, started>>
fsVars == <<fsBlobs, fsPointer, fsClock, fsSlot, fsLastPut, fsOverlap>>
txVars == <<guessArg, guessed>>

(***************************************************************************)
(* Bounds of the model.                                                    *)
(***************************************************************************)
MaxAttempts == 4
NumClients == 2
MaxLen == 2
MaxRequests == 3

\* The attempt budgets of the call sites.
InitAttempts == 10
QueryAttempts == 3

Null == [null |-> TRUE]

(***************************************************************************)
(* Errors.  An error is a record of the code and the message the pg driver *)
(* (or the service itself) attaches; a message is the sequence of its      *)
(* words, so that toLowerCase and includes are computed, not assumed.      *)
(***************************************************************************)
ErrStartingUp ==
    [code |-> "57P03",
     message |-> <<"the", "database", "system", "is", "starting", "up">>]
ErrStartingUpMsg ==
    [code |-> "",
     message |-> <<"FATAL:", "The", "Database", "System", "Is", "Starting", "Up">>]
ErrStartingUpCode == [code |-> "57P03", message |-> <<>>]
ErrFatal ==
    [code |-> "42601", message |-> <<"syntax", "error", "starting">>]
ErrUnconfigured ==
    [code |-> "", message |-> <<"DATABASE_URL", "is", "not", "set">>]
\* The TypeError of reading a property of undefined.
ErrTypeError ==
    [code |-> "", message |-> <<"Cannot", "read", "properties", "of", "undefined">>]

DbErrors == {ErrStartingUp, ErrStartingUpMsg, ErrStartingUpCode, ErrFatal}

LowerWord(w) ==
    CASE w = "FATAL:" -> "fatal:"
      [] w = "The" -> "the"
      [] w = "Database" -> "database"
      [] w = "System" -> "system"
      [] w = "Is" -> "is"
      [] w = "Starting" -> "starting"
      [] w = "Up" -> "up"
      [] w = "DATABASE_URL" -> "database_url"
      [] OTHER -> w

ToLowerCase(msg) == [k \in DOMAIN msg |-> LowerWord(msg[k])]

Includes(msg, pat) ==
    \E k \in 0..(Len(msg) - Len(pat)) : SubSeq(msg, k + 1, k + Len(pat)) = pat

isTransientDbError_noLower(err) ==
    \/ err.code = "57P03"
    \/ Includes(err.message, <<"database", "system", "is", "starting", "up">>)

isTransientDbError(err) ==
    LET msg == ToLowerCase(err.message)
    IN  \/ err.code = "57P03"
        \/ Includes(msg, <<"database", "system", "is", "starting", "up">>)
        \/ Includes(msg, <<"the", "database", "system", "is", "starting", "up">>)

(***************************************************************************)
(* withRetries (lines 36-50) as a state machine over a record:             *)
(*   attempts  the budget                                                  *)
(*   i         the loop index                                              *)
(*   st        "inflight" (fn invoked, awaited), "sleep" (in sleep(delayMs)),*)
(*             "ret" (returned out), "throw" (threw out)                   *)
(*   lastErr   the variable of line 37                                     *)
(*   out       the value returned or the error thrown                      *)
(*   hist      history: the outcome of every invocation of fn so far       *)
(*   sleeps    history: the number of sleeps started                       *)
(***************************************************************************)
Ok(v) == [ok |-> TRUE, val |-> v]
Fail(e) == [ok |-> FALSE, err |-> e]

\* line 43 with the transient test dropped: every error is retried
ShouldRethrow_retryAll(err, i, attempts) == i = attempts - 1

\* line 43 with the last-attempt test dropped
ShouldRethrow_noLast(err, i, attempts) == ~isTransientDbError(err)

\* line 43 with the retry dropped: every error is rethrown
ShouldRethrow_always(err, i, attempts) == TRUE

ShouldRethrow(err, i, attempts) ==
    ~isTransientDbError(err) \/ i = attempts - 1

\* Entering withRetries: the loop's first iteration invokes fn at once; with a
\* budget of 0 the loop is skipped and line 49 throws lastErr, still null.
WrStart(attempts) ==
    IF 0 < attempts
    THEN [attempts |-> attempts, i |-> 0, st |-> "inflight", lastErr |-> Null,
          out |-> Null, hist |-> <<>>, sleeps |-> 0]
    ELSE [attempts |-> attempts, i |-> 0, st |-> "throw", lastErr |-> Null,
          out |-> Null, hist |-> <<>>, sleeps |-> 0]

\* The awaited fn() settles with outcome o (lines 40-46).
WrSettle(w, o) ==
    IF o.ok
    THEN [w EXCEPT !.st = "ret", !.out = o.val, !.hist = Append(@, o)]
    ELSE IF ShouldRethrow(o.err, w.i, w.attempts)
         THEN [w EXCEPT !.st = "throw", !.lastErr = o.err, !.out = o.err,
                        !.hist = Append(@, o)]
         ELSE [w EXCEPT !.st = "sleep", !.lastErr = o.err,
                        !.hist = Append(@, o), !.sleeps = @ + 1]

\* line 38 without i += 1
WrWake_noCount(w) == [w EXCEPT !.st = "inflight"]

\* The sleep ends: i += 1, then the next iteration invokes fn, or the loop is
\* over and line 49 throws lastErr.
WrWake(w) ==
    IF w.i + 1 < w.attempts
    THEN [w EXCEPT !.i = @ + 1, !.st = "inflight"]
    ELSE [w EXCEPT !.i = @ + 1, !.st = "throw", !.out = w.lastErr]

\* The number of invocations of fn made so far.
WrCalls(w) == Len(w.hist) + (IF w.st = "inflight" THEN 1 ELSE 0)

(***************************************************************************)
(* SpecRetry: one withRetries call, any budget, any operation.             *)
(***************************************************************************)
RetryOutcomes == {Ok([rows |-> <<>>])} \cup {Fail(e) : e \in DbErrors}

RetryIdle == [attempts |-> 0, i |-> 0, st |-> "idle", lastErr |-> Null,
              out |-> Null, hist |-> <<>>, sleeps |-> 0]

RetryCall(attempts) ==
    /\ rt.st = "idle"
    /\ rt' = WrStart(attempts)
    /\ UNCHANGED <<dbVars, fsVars, txVars>>

RetrySettle(o) ==
    /\ rt.st = "inflight"
    /\ rt' = WrSettle(rt, o)
    /\ UNCHANGED <<dbVars, fsVars, txVars>>

RetryWake ==
    /\ rt.st = "sleep"
    /\ rt' = WrWake(rt)
    /\ UNCHANGED <<dbVars, fsVars, txVars>>

InitCommon ==
    /\ rt = RetryIdle
    /\ pool \in BOOLEAN
    /\ uploadToken \in {"", "s3cret"}
    /\ dbInitPromise = Null
    /\ initStarts = 0
    /\ createInFlight = 0
    /\ tableExists = FALSE
    /\ uploads = <<>>
    /\ now = 0
    /\ lastPut = Null
    /\ slot = [c \in 1..NumClients |-> Null]
    /\ started = 0
    /\ fsClock = 0
    /\ fsSlot = [c \in 1..NumClients |-> Null]
    /\ fsLastPut = Null
    /\ fsOverlap = FALSE

\* DATA_DIR as ensureDir creates it when there is none (lines 259-265): no
\* file in it.
FreshDisk == fsBlobs = <<>> /\ fsPointer = Null

\* guessDelimiterFromContent is called by the upload handler only.
NoGuess == guessArg = [given |-> FALSE, text |-> <<>>] /\ guessed = <<>>

InitRetry ==
    /\ InitCommon /\ FreshDisk /\ NoGuess
    /\ pool = TRUE /\ uploadToken = "" /\ files = {}

NextRetry ==
    \/ \E a \in 0..MaxAttempts : RetryCall(a)
    \/ \E o \in RetryOutcomes : RetrySettle(o)
    \/ RetryWake

SpecRetry == InitRetry /\ [][NextRetry]_vars

(***************************************************************************)
(* Text.  An uploaded file is a sequence of bytes; a JavaScript string is  *)
(* modelled as the sequence of its code points.  The bytes of the model    *)
(* are ASCII bytes, 0xC3 (the lead byte of a two-byte sequence) and 0xA9   *)
(* (a continuation byte), so the decoder covers the one- and two-byte      *)
(* forms of UTF-8 and their malformed uses.                                *)
(***************************************************************************)
Comma == 44
Semicolon == 59
LF == 10
CR == 13
Replacement == 65533

Bytes == {Comma, Semicolon, LF, 195, 169}

IsAscii(b) == b < 128
IsContinuation(b) == 128 <= b /\ b <= 191
IsLead2(b) == 194 <= b /\ b <= 223
\* The decoder taken for the identity on bytes.
Utf8Decode_identity(buf) == buf

\* Buffer.prototype.toString("utf8") (line 179): a malformed byte decodes to
\* U+FFFD and decoding resumes at the next byte.
RECURSIVE Utf8Decode(_)
Utf8Decode(buf) ==
    IF buf = <<>> THEN <<>>
    ELSE IF IsAscii(buf[1]) THEN <<buf[1]>> \o Utf8Decode(Tail(buf))
    ELSE IF IsLead2(buf[1]) /\ Len(buf) >= 2 /\ IsContinuation(buf[2])
         THEN <<(buf[1] - 192) * 64 + (buf[2] - 128)>>
                  \o Utf8Decode(Tail(Tail(buf)))
    ELSE <<Replacement>> \o Utf8Decode(Tail(buf))

\* res.send(string) (line 234): the string is written as UTF-8.
RECURSIVE Utf8Encode(_)
Utf8Encode(str) ==
    IF str = <<>> THEN <<>>
    ELSE LET cp == str[1]
             head == IF cp < 128 THEN <<cp>>
                     ELSE IF cp < 2048
                          THEN <<192 + (cp \div 64), 128 + (cp % 64)>>
                     ELSE <<224 + (cp \div 4096), 128 + ((cp \div 64) % 64),
                            128 + (cp % 64)>>
         IN  head \o Utf8Encode(Tail(str))

\* content.split(/\r?\n/)[0] (line 89): the text before the first LF, less a
\* CR that directly precedes that LF.
RECURSIVE FirstLine(_)
FirstLine(str) ==
    IF str = <<>> THEN <<>>
    ELSE IF str[1] = LF THEN <<>>
    ELSE IF str[1] = CR /\ Len(str) >= 2 /\ str[2] = LF THEN <<>>
    ELSE <<str[1]>> \o FirstLine(Tail(str))

CountOf(ch, str) == Cardinality({k \in DOMAIN str : str[k] = ch})

\* content || "" (line 89): the argument is a record of whether a text
\* was given and of that text.
ContentOrEmpty(arg) == IF arg.given THEN arg.text ELSE <<>>

\* line 92 with >= for >
guessDelimiterFromContent_tie(content) ==
    LET firstLine == FirstLine(content)
    IN  IF CountOf(Semicolon, firstLine) >= CountOf(Comma, firstLine)
        THEN Semicolon ELSE Comma

guessDelimiterFromContent(content) ==
    LET firstLine == FirstLine(content)
        commaCount == CountOf(Comma, firstLine)
        semicolonCount == CountOf(Semicolon, firstLine)
    IN  IF semicolonCount > commaCount THEN Semicolon ELSE Comma

\* The hasHeader form field (line 181): a record [text |-> ...], or Null when
\* the field is absent.
LowerText(t) ==
    CASE t = "FALSE" -> "false"
      [] t = "False" -> "false"
      [] t = "TRUE" -> "true"
      [] OTHER -> t

HasHeaderFields == {Null, [text |-> "False"]}

\* line 181 without toLowerCase
ParseHasHeader_noLower(field) ==
    (IF field = Null THEN "true" ELSE field.text) # "false"

ParseHasHeader(field) ==
    LowerText(IF field = Null THEN "true" ELSE field.text) # "false"

(***************************************************************************)
(* isAuthorized (lines 79-86 and 280-287).  An Authorization header is a   *)
(* record of its first seven characters and the rest, or Null when absent. *)
(***************************************************************************)
Trim(t) ==
    CASE t = " s3cret " -> "s3cret"
      [] t = " " -> ""
      [] OTHER -> t

AuthHeaders == {Null, [prefix |-> "Bearer ", rest |-> " s3cret "]}

isAuthorized(token, header) ==
    IF token = "" THEN TRUE
    ELSE IF header = Null THEN FALSE
    ELSE IF header.prefix # "Bearer " THEN FALSE
    ELSE Trim(header.rest) = token

(***************************************************************************)
(* The relational service (lines 1-246).                                   *)
(*                                                                         *)
(* A client runs one request at a time; slot[c] is Null before its first   *)
(* request and otherwise a record:                                         *)
(*   kind      "upload", "latest", "meta" or "count"                       *)
(*   pc        "awaitInit" (at await ensureDb()), "query" (at await        *)
(*             withRetries(...)), "done" (response sent)                   *)
(*   w         the handler's withRetries call, Null outside "query"        *)
(*   file      req.file                                                    *)
(*   content, delimiter, hasHeader   the constants of lines 179-181        *)
(*   initSeen  history: how await ensureDb() ended for this request        *)
(*   thrown    history: the error the catch block caught                   *)
(*   res       the response: [status, body]                                *)
(***************************************************************************)
Clients == 1..NumClients

LowerName(n) == IF n = "X.CSV" THEN "x.csv" ELSE n

EndsWithCsv(n) == n = "x.csv"

File(name, mime, buf) ==
    [originalname |-> name, mimetype |-> mime, buffer |-> buf, size |-> Len(buf)]

\* req.file.mimetype || "text/plain" (lines 187, 197)
MimeOrDefault(m) == IF m = "" THEN "text/plain" ELSE m

NewRequest(kind, file, field) ==
    [kind |-> kind, pc |-> "awaitInit", w |-> Null, file |-> file,
     content |-> <<>>, delimiter |-> Comma, hasHeader |-> TRUE, field |-> field,
     initSeen |-> Null, thrown |-> Null, res |-> Null]

Idle(c) == IF slot[c] = Null THEN TRUE ELSE slot[c].pc = "done"

Respond(s, status, body) ==
    [s EXCEPT !.pc = "done", !.w = Null, !.file = Null, !.content = <<>>,
              !.delimiter = Comma, !.hasHeader = TRUE, !.field = Null,
              !.res = [status |-> status, body |-> body]]

\* err?.message || "<default>"
MessageOr(err, default) ==
    IF err.message = <<>> THEN default ELSE err.message

\* every error answered 500, as /uploads/count does
CatchStatus_always500(kind, err) == 500

\* The status of a catch block: lines 124-126 (count), 143-149 (meta),
\* 204-210 (upload), 235-241 (latest).
CatchStatus(kind, err) ==
    IF kind = "count" THEN 500
    ELSE IF isTransientDbError(err) THEN 503 ELSE 500

Catch(s, err) ==
    [Respond(s, CatchStatus(s.kind, err),
             [error |-> MessageOr(err, <<"failed">>)]) EXCEPT !.thrown = err]

\* line 56 without the memo: every call starts the initialization
NeedsInit_always(p) == TRUE

\* line 56 with a rejected promise dropped: the next call starts over
NeedsInit_orRejected(p) == IF p = Null THEN TRUE ELSE p.state = "rejected"

\* line 56
NeedsInit(p) == p = Null

\* The promise of an async call w: pending while the call runs, then settled
\* with the value returned or the error thrown; the frame of the call (its
\* loop index, lastErr) lives only while it runs.
PromiseOf(w) ==
    IF w.st = "ret" THEN [state |-> "fulfilled", value |-> w.out, w |-> Null]
    ELSE IF w.st = "throw"
         THEN [state |-> "rejected", value |-> w.out, w |-> Null]
    ELSE [state |-> "pending", value |-> Null, w |-> w]

\* line 53 with the test dropped
Unconfigured_never(p) == FALSE

\* line 53
Unconfigured(p) == ~p

\* ensureDb() called by client c whose request record is s (lines 52-75)
\* and the handler's step up to its await.
CallEnsureDb(c, s) ==
    IF Unconfigured(pool)
    THEN /\ slot' = [slot EXCEPT ![c] = Catch(s, ErrUnconfigured)]
         /\ UNCHANGED <<dbInitPromise, initStarts, createInFlight>>
    ELSE IF NeedsInit(dbInitPromise)
    THEN /\ dbInitPromise' = PromiseOf(WrStart(InitAttempts))
         /\ initStarts' = initStarts + 1
         /\ createInFlight' = createInFlight + 1
         /\ slot' = [slot EXCEPT ![c] = s]
    ELSE /\ slot' = [slot EXCEPT ![c] = s]
         /\ UNCHANGED <<dbInitPromise, initStarts, createInFlight>>

\* POST /upload up to its first await (lines 167-177)
PostUpload(c, header, file, field) ==
    /\ Idle(c)
    /\ started < MaxRequests
    /\ started' = started + 1
    /\ IF ~isAuthorized(uploadToken, header)
       THEN /\ slot' = [slot EXCEPT ![c] =
                   Respond(NewRequest("upload", Null, Null), 401,
                           [error |-> <<"Unauthorized">>])]
            /\ UNCHANGED <<dbInitPromise, initStarts, createInFlight>>
       ELSE IF file = Null
       THEN /\ slot' = [slot EXCEPT ![c] =
                   Respond(NewRequest("upload", Null, Null), 400,
                           [error |-> <<"Missing", "file", "field", "'file'">>])]
            /\ UNCHANGED <<dbInitPromise, initStarts, createInFlight>>
       ELSE CallEnsureDb(c, NewRequest("upload", file, field))
    /\ UNCHANGED <<txVars, rt, pool, uploadToken, tableExists, uploads, now, lastPut,
                   files, fsVars>>

\* GET /latest, /uploads/latest/meta, /uploads/count up to the first await
\* (lines 213-215, 129-131, 116-118)
GetRequest(c, kind) ==
    /\ Idle(c)
    /\ started < MaxRequests
    /\ started' = started + 1
    /\ CallEnsureDb(c, NewRequest(kind, Null, Null))
    /\ UNCHANGED <<txVars, rt, pool, uploadToken, tableExists, uploads, now, lastPut,
                   files, fsVars>>

GetLatest(c) == GetRequest(c, "latest")
GetMeta(c) == GetRequest(c, "meta")
GetCount(c) == GetRequest(c, "count")

\* the handler goes on without awaiting the promise
InitAwaited_noAwait(p) == TRUE

\* await: the handler resumes once the promise is settled
InitAwaited(p) == p.state # "pending"

\* await ensureDb() resumes: on success the handler computes the constants
\* of lines 179-181 and enters withRetries, whose first iteration sends the
\* query; on failure the catch block answers.
AwaitInit(c) ==
    /\ slot[c] # Null
    /\ slot[c].pc = "awaitInit"
    /\ dbInitPromise # Null
    /\ InitAwaited(dbInitPromise)
    /\ LET s == slot[c] IN
       IF dbInitPromise.state = "rejected"
       THEN slot' = [slot EXCEPT ![c] =
                [Catch(s, dbInitPromise.value) EXCEPT
                     !.initSeen = Fail(dbInitPromise.value)]]
       ELSE IF s.kind = "upload"
       THEN LET content == Utf8Decode(s.file.buffer) IN
            slot' = [slot EXCEPT ![c] =
                [s EXCEPT !.pc = "query", !.w = WrStart(QueryAttempts),
                          !.content = content,
                          !.delimiter = guessDelimiterFromContent(content),
                          !.hasHeader = ParseHasHeader(s.field),
                          !.field = Null,
                          !.initSeen = Ok(Null)]]
       ELSE slot' = [slot EXCEPT ![c] =
                [s EXCEPT !.pc = "query", !.w = WrStart(QueryAttempts),
                          !.initSeen = Ok(Null)]]
    /\ UNCHANGED <<txVars, rt, pool, uploadToken, dbInitPromise, initStarts,
                   createInFlight, tableExists, uploads, now, lastPut, files,
                   started, fsVars>>

\* The create-table query of the initialization is answered (lines 57-72).
InitSettle(o) ==
    /\ dbInitPromise # Null
    /\ dbInitPromise.state = "pending"
    /\ dbInitPromise.w.st = "inflight"
    /\ dbInitPromise' = PromiseOf(WrSettle(dbInitPromise.w, o))
    /\ createInFlight' = createInFlight - 1
    /\ tableExists' = (tableExists \/ o.ok)
    /\ UNCHANGED <<txVars, rt, pool, uploadToken, initStarts, uploads, now, lastPut,
                   slot, files, started, fsVars>>

\* The initialization's sleep ends and its next attempt is sent.
InitWake ==
    /\ dbInitPromise # Null
    /\ dbInitPromise.state = "pending"
    /\ dbInitPromise.w.st = "sleep"
    /\ dbInitPromise' = PromiseOf(WrWake(dbInitPromise.w))
    /\ createInFlight' =
           createInFlight + (IF dbInitPromise'.state = "pending" THEN 1 ELSE 0)
    /\ UNCHANGED <<txVars, rt, pool, uploadToken, initStarts, tableExists, uploads,
                   now, lastPut, slot, files, started, fsVars>>

\* order by uploaded_at asc, id asc
RowBefore_asc(a, b) ==
    \/ a.uploaded_at < b.uploaded_at
    \/ a.uploaded_at = b.uploaded_at /\ a.id < b.id

\* order by uploaded_at desc, id desc (lines 135, 219)
RowBefore(a, b) ==
    \/ a.uploaded_at > b.uploaded_at
    \/ a.uploaded_at = b.uploaded_at /\ a.id > b.id

Range(seq) == {seq[k] : k \in DOMAIN seq}

\* ... limit 1
SelectLatest(rows) ==
    IF rows = <<>> THEN <<>>
    ELSE <<CHOOSE r \in Range(rows) :
               \A q \in Range(rows) \ {r} : RowBefore(r, q)>>

\* the row given the id of the first row instead of the next of the sequence
NewRow_firstId(s, t) ==
    [id |-> 1,
     original_name |-> s.file.originalname,
     mimetype |-> MimeOrDefault(s.file.mimetype),
     size_bytes |-> s.file.size,
     uploaded_at |-> t,
     delimiter |-> s.delimiter,
     has_header |-> s.hasHeader,
     content |-> s.content]

\* The row the insert of lines 186-187 creates: id from the sequence,
\* uploaded_at from now(), which reads t.
NewRow(s, t) ==
    [id |-> Len(uploads) + 1,
     original_name |-> s.file.originalname,
     mimetype |-> MimeOrDefault(s.file.mimetype),
     size_bytes |-> s.file.size,
     uploaded_at |-> t,
     delimiter |-> s.delimiter,
     has_header |-> s.hasHeader,
     content |-> s.content]

MetaOf(row) ==
    [id |-> row.id, original_name |-> row.original_name,
     mimetype |-> row.mimetype, size_bytes |-> row.size_bytes,
     uploaded_at |-> row.uploaded_at, delimiter |-> row.delimiter,
     has_header |-> row.has_header]

\* What a successful query of request s returns, the clock reading t.
QueryResult(s, t) ==
    CASE s.kind = "upload" ->
             [rows |-> <<[id |-> NewRow(s, t).id, uploaded_at |-> t]>>]
      [] s.kind = "latest" -> [rows |-> SelectLatest(uploads)]
      [] s.kind = "meta" ->
             [rows |-> [k \in DOMAIN SelectLatest(uploads) |->
                            MetaOf(SelectLatest(uploads)[k])]]
      [] s.kind = "count" -> [rows |-> <<[count |-> Len(uploads)]>>]

\* the test of the row count dropped
RowCountIsZero_never(result) == FALSE

\* result.rowCount === 0 (lines 139, 223)
RowCountIsZero(result) == Len(result.rows) = 0

\* The handler after its query returned result (lines 123, 139-142,
\* 192-203, 223-234).  Past the test of the row count, rows[0] of no rows
\* is undefined: JSON leaves it out, and reading its property throws.
Success(s, result) ==
    CASE s.kind = "upload" ->
             Respond(s, 200,
                 [latest |-> [id |-> result.rows[1].id,
                              originalName |-> s.file.originalname,
                              mimetype |-> MimeOrDefault(s.file.mimetype),
                              size |-> s.file.size,
                              uploadedAt |-> result.rows[1].uploaded_at,
                              delimiter |-> s.delimiter,
                              hasHeader |-> s.hasHeader]])
      [] s.kind = "latest" ->
             IF RowCountIsZero(result)
             THEN Respond(s, 404, [error |-> <<"No", "file", "uploaded", "yet">>])
             ELSE IF result.rows = <<>> THEN Catch(s, ErrTypeError)
             ELSE Respond(s, 200,
                      [bytes |-> Utf8Encode(result.rows[1].content),
                       contentType |->
                           IF EndsWithCsv(LowerName(result.rows[1].original_name))
                           THEN "text/csv" ELSE "text/plain"])
      [] s.kind = "meta" ->
             IF RowCountIsZero(result)
             THEN Respond(s, 404, [error |-> <<"No", "file", "uploaded", "yet">>])
             ELSE Respond(s, 200, [latest |-> IF result.rows = <<>> THEN Null
                                              ELSE result.rows[1]])
      [] s.kind = "count" ->
             Respond(s, 200, [count |-> result.rows[1].count])

\* The readings the database clock can give next: it does not go back, and
\* what matters of a reading is whether it equals the one before.
ClockReadings == {now, now + 1}

\* The query in flight of client c is executed and answered: with a result
\* (the insert commits its row, stamped with the clock reading t), or with
\* an error.
QuerySettle(c, o, t) ==
    /\ slot[c] # Null
    /\ slot[c].pc = "query"
    /\ slot[c].w.st = "inflight"
    /\ LET s == slot[c] IN
       IF o.ok
       THEN /\ tableExists
            /\ slot' = [slot EXCEPT ![c] = Success(s, QueryResult(s, t))]
            /\ IF s.kind = "upload"
               THEN /\ uploads' = Append(uploads, NewRow(s, t))
                    /\ now' = t
                    /\ lastPut' = [id |-> NewRow(s, t).id,
                                   buffer |-> s.file.buffer,
                                   delimiter |-> s.delimiter,
                                   hasHeader |-> s.hasHeader]
               ELSE /\ t = now
                    /\ UNCHANGED <<uploads, now, lastPut>>
       ELSE /\ t = now
            /\ LET w == WrSettle(s.w, o) IN
               slot' = [slot EXCEPT ![c] =
                   IF w.st = "throw" THEN Catch(s, w.out)
                   ELSE [s EXCEPT !.w = w]]
            /\ UNCHANGED <<uploads, now, lastPut>>
    /\ UNCHANGED <<txVars, rt, pool, uploadToken, dbInitPromise, initStarts,
                   createInFlight, tableExists, files, started, fsVars>>

\* The sleep of client c's withRetries ends and its next attempt is sent.
QueryWake(c) ==
    /\ slot[c] # Null
    /\ slot[c].pc = "query"
    /\ slot[c].w.st = "sleep"
    /\ LET w == WrWake(slot[c].w) IN
       slot' = [slot EXCEPT ![c] =
           IF w.st = "throw" THEN Catch(slot[c], w.out)
           ELSE [slot[c] EXCEPT !.w = w]]
    /\ UNCHANGED <<txVars, rt, pool, uploadToken, dbInitPromise, initStarts, createInFlight,
                   tableExists, uploads, now, lastPut, files, started, fsVars>>

\* What the database answers a query of the service with: a result, the
\* starting-up error or another error.
DbOutcomes == {Ok(Null), Fail(ErrStartingUp), Fail(ErrFatal)}

ServiceFiles ==
    {File("x.csv", "text/csv", <<Semicolon, Comma>>),
     File("notes.txt", "", <<195>>)}

Init ==
    /\ InitCommon
    /\ FreshDisk
    /\ NoGuess
    /\ uploadToken = "s3cret"
    /\ files = ServiceFiles

Next ==
    \/ \E c \in Clients, h \in AuthHeaders, f \in files \cup {Null} :
           PostUpload(c, h, f, Null)
    \/ \E c \in Clients : GetLatest(c)
    \/ \E c \in Clients : GetMeta(c)
    \/ \E c \in Clients : GetCount(c)
    \/ \E c \in Clients : AwaitInit(c)
    \/ \E o \in DbOutcomes : InitSettle(o)
    \/ InitWake
    \/ \E c \in Clients, o \in DbOutcomes, t \in ClockReadings :
           QuerySettle(c, o, t)
    \/ \E c \in Clients : QueryWake(c)

Spec == Init /\ [][Next]_vars

(***************************************************************************)
(* Properties of withRetries, checked under SpecRetry.                     *)
(***************************************************************************)
TransientFailure(o) == ~o.ok /\ isTransientDbError(o.err)
FatalFailure(o) == ~o.ok /\ ~isTransientDbError(o.err)

AllTransient(h, k) == \A j \in 1..k : TransientFailure(h[j])

\* C1: for a budget of at least 1 and every k below the budget, an operation
\* that fails transiently on its first k invocations is invoked a (k+1)-th
\* time (withRetries has not given up), and when that invocation succeeds
\* withRetries returns its result, having invoked the operation exactly
\* k+1 times.
C1_SucceedsAfterTransientFailures ==
    rt.attempts >= 1 =>
        \A k \in 0..(rt.attempts - 1) :
            /\ (Len(rt.hist) = k /\ AllTransient(rt.hist, k))
                   => /\ rt.st \in {"inflight", "sleep"}
                      /\ WrCalls(rt) \in {k, k + 1}
            /\ (Len(rt.hist) = k + 1 /\ AllTransient(rt.hist, k)
                    /\ rt.hist[k + 1].ok)
                   => /\ rt.st = "ret"
                      /\ rt.out = rt.hist[k + 1].val
                      /\ WrCalls(rt) = k + 1

\* C1 witness: budget 3, two transient failures, then success on the last
\* attempt the budget allows.
C1_Witness ==
    /\ rt.attempts = 3
    /\ rt.st = "ret"
    /\ Len(rt.hist) = 3
    /\ AllTransient(rt.hist, 2)

\* C2: a failure that isTransientDbError classifies as non-transient ends
\* withRetries at once: it is the last invocation, no sleep follows it, and
\* the error thrown is that same error, whatever the budget left.
C2_FatalFailurePropagatesAtOnce ==
    \A j \in 1..Len(rt.hist) :
        FatalFailure(rt.hist[j]) =>
            /\ j = Len(rt.hist)
            /\ rt.st = "throw"
            /\ rt.out = rt.hist[j].err
            /\ WrCalls(rt) = j
            /\ rt.sleeps = j - 1

\* C2 witness: a fatal failure on the first invocation with budget left.
C2_Witness ==
    /\ rt.attempts = 3
    /\ rt.st = "throw"
    /\ Len(rt.hist) = 1
    /\ FatalFailure(rt.hist[1])

\* C3: with a budget of at least 1, the operation is never invoked more often
\* than the budget, and when every invocation fails transiently withRetries
\* ends only after exactly `attempts` invocations and attempts-1 sleeps (none
\* after the last attempt), throwing the error of the last attempt.
C3_ExhaustionAfterAllAttempts ==
    rt.attempts >= 1 =>
        /\ WrCalls(rt) <= rt.attempts
        /\ rt.sleeps <= rt.attempts - 1
        /\ (rt.st = "throw" /\ AllTransient(rt.hist, Len(rt.hist)))
               => /\ Len(rt.hist) = rt.attempts
                  /\ rt.sleeps = rt.attempts - 1
                  /\ rt.out = rt.hist[rt.attempts].err

\* C3 witness: budget 3 exhausted by three transient failures.
C3_Witness ==
    /\ rt.attempts = 3
    /\ rt.st = "throw"
    /\ Len(rt.hist) = 3
    /\ AllTransient(rt.hist, 3)
    /\ rt.sleeps = 2

(***************************************************************************)
(* Properties of the relational service, checked under Spec.               *)
(***************************************************************************)
InitState == IF dbInitPromise = Null THEN "none" ELSE dbInitPromise.state

InitOutcome ==
    IF InitState = "fulfilled" THEN Ok(Null) ELSE Fail(dbInitPromise.value)

SeenOf(s) == IF s = Null THEN Null ELSE s.initSeen

PcOf(s) == IF s = Null THEN "none" ELSE s.pc

\* The create-table queries the running initialization has sent.
CreatesSent ==
    IF InitState = "pending" THEN WrCalls(dbInitPromise.w) ELSE 0

\* The create-table queries the running initialization awaits the answer of.
CreatesAwaited ==
    IF InitState = "pending"
    THEN (IF dbInitPromise.w.st = "inflight" THEN 1 ELSE 0)
    ELSE 0

\* Every request that awaited ensureDb() saw the outcome of the one promise.
SameInitOutcome ==
    \A c \in Clients :
        SeenOf(slot[c]) # Null =>
            /\ InitState \in {"fulfilled", "rejected"}
            /\ SeenOf(slot[c]) = InitOutcome

\* C4 as stated: however many requests call ensureDb before the
\* initialization has completed, the create-table query is sent once only,
\* and all callers see one outcome.
C4_CreateSentOnce ==
    /\ initStarts <= 1
    /\ createInFlight <= 1
    /\ CreatesSent <= 1
    /\ SameInitOutcome

\* C4 as amended: with a backend configured, however many requests call
\* ensureDb before the initialization has completed, ensureDb starts one
\* initialization only (late callers start none); that initialization sends
\* the create-table query once per attempt of its withRetries, at most
\* InitAttempts times and never two at a time; and all callers see one outcome.
C4_SingleInitialization ==
    /\ initStarts <= 1
    /\ (pool /\ \E c \in Clients : PcOf(slot[c]) \in {"awaitInit", "query"})
           => initStarts = 1
    /\ createInFlight <= 1
    /\ createInFlight = CreatesAwaited
    /\ CreatesSent <= InitAttempts
    /\ SameInitOutcome

\* C4 witness: every client called ensureDb while the initialization, already
\* retrying, has not completed.
C4_Witness ==
    /\ InitState = "pending"
    /\ dbInitPromise.w.i >= 1
    /\ \A c \in Clients : PcOf(slot[c]) = "awaitInit"

\* C5: once the initialization has succeeded, no step of any request starts
\* it again or sends a create-table query, and every request that awaits
\* ensureDb() from then on gets the completed success.
C5_NoReinitAfterSuccess ==
    [][InitState = "fulfilled" =>
          /\ dbInitPromise' = dbInitPromise
          /\ initStarts' = initStarts
          /\ createInFlight' = 0
          /\ \A c \in Clients : SeenOf(slot'[c]) \in {Null, Ok(Null)}]_vars

\* C5 witness: two uploads are committed and a third request is at its query,
\* so that one client has called ensureDb again after its earlier request,
\* which needed the initialization to have succeeded, was answered.
C5_Witness ==
    /\ InitState = "fulfilled"
    /\ started = 3
    /\ Len(uploads) = 2
    /\ \E c \in Clients : PcOf(slot[c]) = "query"

\* C6: an insert or a select on the uploads table is sent, or waits for its
\* retry, only when the initialization has completed successfully: never
\* while it is in flight, after it failed, or before it started.
C6_QueriesOnlyAfterInit ==
    \A c \in Clients :
        PcOf(slot[c]) = "query" => InitState = "fulfilled" /\ tableExists

\* C6 witness: an insert and a select are in flight together.
C6_Witness ==
    /\ \E c \in Clients :
           /\ PcOf(slot[c]) = "query" /\ slot[c].kind = "upload"
           /\ slot[c].w.st = "inflight"
    /\ \E c \in Clients :
           /\ PcOf(slot[c]) = "query" /\ slot[c].kind \in {"latest", "meta", "count"}
           /\ slot[c].w.st = "inflight"

\* C7: with no backend configured, ensureDb fails at every call: no
\* initialization is ever started, no withRetries runs, no query is sent, and
\* the error is not transient, so that an upload that passed the checks of
\* authorization and file, and every GET /latest, is answered 500 with
\* the message of ensureDb, and no request is answered 503.
C7_UnconfiguredFailsFatally ==
    ~pool =>
        /\ dbInitPromise = Null
        /\ initStarts = 0
        /\ createInFlight = 0
        /\ ~isTransientDbError(ErrUnconfigured)
        /\ \A c \in Clients :
               slot[c] # Null =>
                   /\ slot[c].pc = "done"
                   /\ slot[c].w = Null
                   /\ slot[c].res.status # 503
                   /\ slot[c].kind = "upload" => slot[c].res.status \in {400, 401, 500}
                   /\ slot[c].kind = "latest" => slot[c].res.status = 500
                   /\ slot[c].res.status = 500 =>
                          slot[c].res.body = [error |-> ErrUnconfigured.message]

\* C7 witness: an upload and a GET /latest answered 500, unconfigured.
C7_Witness ==
    /\ ~pool
    /\ \E c \in Clients :
           /\ PcOf(slot[c]) = "done" /\ slot[c].kind = "upload"
           /\ slot[c].res.status = 500
    /\ \E c \in Clients :
           /\ PcOf(slot[c]) = "done" /\ slot[c].kind = "latest"
           /\ slot[c].res.status = 500

(***************************************************************************)
(* SpecStore: the relational service used by one client, one request after *)
(* another, with a backend configured and no token; the run's file is any  *)
(* content of at most MaxLen bytes, uploaded with or without hasHeader.    *)
(***************************************************************************)
RECURSIVE BuffersOfLength(_)
BuffersOfLength(n) ==
    IF n = 0 THEN {<<>>}
    ELSE {<<b>> \o t : b \in Bytes, t \in BuffersOfLength(n - 1)}

Buffers == UNION {BuffersOfLength(n) : n \in 0..MaxLen}

InitStore ==
    /\ InitCommon
    /\ FreshDisk
    /\ NoGuess
    /\ pool = TRUE
    /\ uploadToken = ""
    /\ \E b \in Buffers : files = {File("x.csv", "text/csv", b)}

NextStore ==
    \/ \E f \in files, fld \in HasHeaderFields : PostUpload(1, Null, f, fld)
    \/ GetLatest(1)
    \/ GetMeta(1)
    \/ AwaitInit(1)
    \/ \E o \in DbOutcomes : InitSettle(o)
    \/ InitWake
    \/ \E o \in DbOutcomes, t \in ClockReadings : QuerySettle(1, o, t)
    \/ QueryWake(1)

SpecStore == InitStore /\ [][NextStore]_vars

(***************************************************************************)
(* Properties of the store.                                                *)
(***************************************************************************)
\* Client c's query is answered in this step and the handler responds 200.
Answered200(c, kind) ==
    /\ PcOf(slot[c]) = "query"
    /\ slot[c].kind = kind
    /\ PcOf(slot'[c]) = "done"
    /\ slot'[c].res.status = 200

\* The bytes are UTF-8 as it is defined: ASCII bytes and two-byte sequences
\* of a lead byte and a continuation byte (the forms the model's bytes allow).
RECURSIVE WellFormedUtf8(_)
WellFormedUtf8(buf) ==
    IF buf = <<>> THEN TRUE
    ELSE IF buf[1] < 128 THEN WellFormedUtf8(Tail(buf))
    ELSE IF Len(buf) >= 2 /\ buf[1] \in 194..223 /\ buf[2] \in 128..191
         THEN WellFormedUtf8(Tail(Tail(buf)))
    ELSE FALSE

LatestMetaMatchesPut(c) ==
    Answered200(c, "meta") =>
        /\ slot'[c].res.body.latest.id = lastPut.id
        /\ slot'[c].res.body.latest.delimiter = lastPut.delimiter
        /\ slot'[c].res.body.latest.has_header = lastPut.hasHeader

\* C8 as stated: after a put of payload P, a GET /latest answered 200 before
\* any other put carries exactly the bytes of P, and the latest metadata the
\* delimiter and hasHeader of that put.
C8_RoundTripAnyPayload ==
    [][\A c \in Clients :
          /\ Answered200(c, "latest") => slot'[c].res.body.bytes = lastPut.buffer
          /\ LatestMetaMatchesPut(c)]_vars

\* C8 as amended: after a put of a payload P that is well-formed UTF-8, a
\* GET /latest answered 200 before any other put carries exactly the bytes of
\* P; for any payload the latest metadata carries the delimiter and hasHeader
\* of that put.
C8_RoundTripUtf8Payload ==
    [][\A c \in Clients :
          /\ (Answered200(c, "latest") /\ WellFormedUtf8(lastPut.buffer))
                 => slot'[c].res.body.bytes = lastPut.buffer
          /\ LatestMetaMatchesPut(c)]_vars

\* C8 witness: a put of a two-byte character was committed and a GET /latest
\* returned its two bytes.
C8_Witness ==
    /\ lastPut # Null
    /\ lastPut.buffer = <<195, 169>>
    /\ PcOf(slot[1]) = "done"
    /\ slot[1].kind = "latest"
    /\ slot[1].res.status = 200
    /\ slot[1].res.body.bytes = <<195, 169>>

IsPrefix(a, b) == Len(a) <= Len(b) /\ SubSeq(b, 1, Len(a)) = a

LastRow == uploads[Len(uploads)]

LatestIsLastCommitted ==
    uploads # <<>> =>
        /\ SelectLatest(uploads) = <<LastRow>>
        /\ LastRow.id = lastPut.id
        /\ LastRow.content = Utf8Decode(lastPut.buffer)

\* C9: the row that is maximal by (uploaded_at, id) is always the row
\* committed last, which holds what the last put stored; every row committed
\* earlier stays in the table unchanged; and GET /latest and
\* /uploads/latest/meta answer with that last row.
C9_LatestIsLastCommitted ==
    [][/\ IsPrefix(uploads, uploads')
       /\ LatestIsLastCommitted
       /\ LatestIsLastCommitted'
       /\ \A c \in Clients :
              /\ Answered200(c, "latest") =>
                     slot'[c].res.body.bytes = Utf8Encode(LastRow.content)
              /\ Answered200(c, "meta") =>
                     slot'[c].res.body.latest = MetaOf(LastRow)]_vars

\* C9 witness: two puts of different content committed at the same clock
\* reading, so that only the id tells them apart, and a GET /latest answered
\* with the second.
C9_Witness ==
    /\ Len(uploads) = 2
    /\ uploads[1].uploaded_at = uploads[2].uploaded_at
    /\ uploads[1].content # uploads[2].content
    /\ started = 3
    /\ \E c \in Clients :
           /\ PcOf(slot[c]) = "done"
           /\ slot[c].kind = "latest"
           /\ slot[c].res.status = 200
           /\ slot[c].res.body.bytes = Utf8Encode(uploads[2].content)

(***************************************************************************)
(* The filesystem service (lines 248-354).                                 *)
(*                                                                         *)
(* fsBlobs maps the name of every file of DATA_DIR but latest.json to its  *)
(* bytes; fsPointer is the text of latest.json, or Null while the file     *)
(* does not exist.  fsSlot[c] is Null or a record:                         *)
(*   kind      "upload" or "latest"                                        *)
(*   pc        "writing" (multer is writing req.file to disk), "streaming" *)
(*             (the read stream is piped to the response), "done"          *)
(*   header    the Authorization header of the request                     *)
(*   file      the uploaded file; filename is the name multer gave it,     *)
(*             and for GET /latest the name read from the pointer          *)
(*   res       the response                                                *)
(***************************************************************************)
\* path.basename(file.originalname) (line 272)
Basename(n) == IF n = "../my data.csv" THEN "my data.csv" ELSE n

\* .replace(/\s+/g, "_") (line 272)
ReplaceSpaces(n) == IF n = "my data.csv" THEN "my_data.csv" ELSE n

\* the original name used as it is
SafeOriginal_raw(n) == n

SafeOriginal(n) == ReplaceSpaces(Basename(n))

\* `${ts}__${safeOriginal}` (lines 273-274): the clock reading, to the
\* millisecond, and the sanitized name.
DiskFilename(ts, originalname) == [ts |-> ts, name |-> SafeOriginal(originalname)]

\* JSON.stringify(meta, null, 2) (line 294): the members in insertion order.
JsonStringify(meta) ==
    <<<<"filename", meta.filename>>, <<"originalName", meta.originalName>>,
      <<"mimetype", meta.mimetype>>, <<"size", meta.size>>,
      <<"uploadedAt", meta.uploadedAt>>>>

JsonMember(text, key) ==
    text[CHOOSE k \in DOMAIN text : text[k][1] = key][2]

\* JSON.parse(raw) (line 300)
JsonParse(text) ==
    [filename |-> JsonMember(text, "filename"),
     originalName |-> JsonMember(text, "originalName"),
     mimetype |-> JsonMember(text, "mimetype"),
     size |-> JsonMember(text, "size"),
     uploadedAt |-> JsonMember(text, "uploadedAt")]

\* JSON.parse(raw) returns (line 300): raw is a whole document.  A text cut
\* short makes it throw.
JsonParses(text) ==
    /\ Len(text) = 5
    /\ [k \in 1..5 |-> text[k][1]] =
           <<"filename", "originalName", "mimetype", "size", "uploadedAt">>

\* readLatestMeta (lines 297-304): null when latest.json cannot be read or
\* parsed.
readLatestMeta ==
    IF fsPointer = Null THEN Null
    ELSE IF ~JsonParses(fsPointer) THEN Null
    ELSE JsonParse(fsPointer)

\* the pointer written only when there is none yet
writeLatestMeta_keepFirst(old, meta) ==
    IF old = Null THEN JsonStringify(meta) ELSE old

\* the write interrupted after the first two members
writeLatestMeta_partial(old, meta) == SubSeq(JsonStringify(meta), 1, 2)

\* writeLatestMeta (lines 293-295): the content of latest.json after the
\* call, given its content before.
writeLatestMeta(old, meta) == JsonStringify(meta)

\* A file opened for writing is truncated (multer's disk storage opens it
\* with fs.createWriteStream).
Truncated(blobs, name) ==
    [n \in DOMAIN blobs \cup {name} |-> IF n = name THEN <<>> ELSE blobs[n]]

\* The bytes of buf written at offset 0 of the file, over what it holds.
Written(blobs, name, buf) ==
    [n \in DOMAIN blobs \cup {name} |->
        IF n = name
        THEN IF name \in DOMAIN blobs
             THEN buf \o SubSeq(blobs[name], Len(buf) + 1, Len(blobs[name]))
             ELSE buf
        ELSE blobs[n]]

\* path.extname(meta.originalName || meta.filename).toLowerCase() === ".csv"
ExtIsCsv(n) == n \in {"my data.csv", "../my data.csv", "my_data.csv"}

FsNewRequest(kind, header, file) ==
    [kind |-> kind, pc |-> "done", header |-> header, file |-> file,
     filename |-> Null, res |-> Null]

FsRespond(s, status, body) ==
    [s EXCEPT !.pc = "done", !.header = Null, !.file = Null,
              !.res = [status |-> status, body |-> body]]

FsIdle(c) == IF fsSlot[c] = Null THEN TRUE ELSE fsSlot[c].pc = "done"

FsWriting == {c \in Clients : IF fsSlot[c] = Null THEN FALSE
                              ELSE fsSlot[c].pc = "writing"}

\* The readings new Date() can give the next file name (line 273): the clock
\* does not go back, and what matters of a reading is whether it equals the
\* one before.
FsClockReadings == {fsClock, fsClock + 1}

\* POST /upload arrives.  upload.single("file") runs first (line 310): with
\* a file part, the storage names the file (lines 271-275) and opens it; with
\* none, the handler runs at once (lines 311-317).
FsPostUpload(c, header, file, t) ==
    /\ FsIdle(c)
    /\ started < MaxRequests
    /\ started' = started + 1
    /\ IF file = Null
       THEN /\ fsSlot' = [fsSlot EXCEPT ![c] =
                   IF ~isAuthorized(uploadToken, header)
                   THEN FsRespond(FsNewRequest("upload", header, Null), 401,
                                  [error |-> <<"Unauthorized">>])
                   ELSE FsRespond(FsNewRequest("upload", header, Null), 400,
                                  [error |-> <<"Missing", "file", "field", "'file'">>])]
            /\ t = fsClock
            /\ UNCHANGED <<fsBlobs, fsClock, fsOverlap>>
       ELSE LET name == DiskFilename(t, file.originalname) IN
            /\ fsClock' = t
            /\ fsSlot' = [fsSlot EXCEPT ![c] =
                   [FsNewRequest("upload", header, file) EXCEPT
                        !.pc = "writing", !.filename = name]]
            /\ fsBlobs' = Truncated(fsBlobs, name)
            /\ fsOverlap' = (fsOverlap \/ FsWriting # {})
    /\ UNCHANGED <<txVars, rt, pool, uploadToken, dbInitPromise, initStarts,
                   createInFlight, tableExists, uploads, now, lastPut, slot,
                   files, fsPointer, fsLastPut>>

\* multer has written the file; the handler runs (lines 311-328).  Its
\* uploadedAt (line 324) is the reading the clock gave last.
FsUploadWritten(c) ==
    /\ fsSlot[c] # Null
    /\ fsSlot[c].pc = "writing"
    /\ LET s == fsSlot[c]
           meta == [filename |-> s.filename,
                    originalName |-> s.file.originalname,
                    mimetype |-> s.file.mimetype,
                    size |-> s.file.size,
                    uploadedAt |-> fsClock]
       IN  /\ fsBlobs' = Written(fsBlobs, s.filename, s.file.buffer)
           /\ IF ~isAuthorized(uploadToken, s.header)
              THEN /\ fsSlot' = [fsSlot EXCEPT ![c] =
                          FsRespond(s, 401, [error |-> <<"Unauthorized">>])]
                   /\ fsLastPut' = [filename |-> s.filename,
                                    buffer |-> s.file.buffer, ok |-> FALSE]
                   /\ UNCHANGED fsPointer
              ELSE /\ fsPointer' = writeLatestMeta(fsPointer, meta)
                   /\ fsSlot' = [fsSlot EXCEPT ![c] =
                          FsRespond(s, 200, [latest |-> meta])]
                   /\ fsLastPut' = [filename |-> s.filename,
                                    buffer |-> s.file.buffer, ok |-> TRUE]
    /\ UNCHANGED <<txVars, rt, pool, uploadToken, dbInitPromise, initStarts,
                   createInFlight, tableExists, uploads, now, lastPut, slot,
                   files, started, fsClock, fsOverlap>>

\* "No file uploaded yet" (lines 224, 334)
NoRecordYet == [error |-> <<"No", "file", "uploaded", "yet">>]

\* the message of line 334 sent at line 339 too
LatestNotOnDisk_same == [error |-> <<"No", "file", "uploaded", "yet">>]

\* "Latest file not found on disk" (line 339)
LatestNotOnDisk == [error |-> <<"Latest", "file", "not", "found", "on", "disk">>]

\* GET /latest up to the pipe (lines 331-349)
FsGetLatest(c) ==
    /\ FsIdle(c)
    /\ started < MaxRequests
    /\ started' = started + 1
    /\ LET meta == readLatestMeta
           s == FsNewRequest("latest", Null, Null)
       IN  fsSlot' = [fsSlot EXCEPT ![c] =
               IF meta = Null
               THEN FsRespond(s, 404, NoRecordYet)
               ELSE IF meta.filename \notin DOMAIN fsBlobs
               THEN FsRespond(s, 404, LatestNotOnDisk)
               ELSE [s EXCEPT !.pc = "streaming", !.filename = meta.filename,
                              !.res = [status |-> 200,
                                       body |-> [contentType |->
                                           IF ExtIsCsv(meta.originalName)
                                           THEN "text/csv" ELSE "text/plain"]]]]
    /\ UNCHANGED <<txVars, rt, pool, uploadToken, dbInitPromise, initStarts,
                   createInFlight, tableExists, uploads, now, lastPut, slot,
                   files, fsBlobs, fsPointer, fsClock, fsLastPut, fsOverlap>>

\* The read stream delivers the bytes the file holds (line 349).
FsStream(c) ==
    /\ fsSlot[c] # Null
    /\ fsSlot[c].pc = "streaming"
    /\ fsSlot' = [fsSlot EXCEPT ![c] =
           FsRespond(fsSlot[c], 200,
               [bytes |-> fsBlobs[fsSlot[c].filename],
                contentType |-> fsSlot[c].res.body.contentType])]
    /\ UNCHANGED <<txVars, rt, pool, uploadToken, dbInitPromise, initStarts,
                   createInFlight, tableExists, uploads, now, lastPut, slot,
                   files, started, fsBlobs, fsPointer, fsClock, fsLastPut,
                   fsOverlap>>

FsFiles ==
    {File("my data.csv", "text/csv", <<Semicolon, Comma>>),
     File("../my data.csv", "text/plain", <<195>>)}

InitFs ==
    /\ InitCommon
    /\ FreshDisk
    /\ NoGuess
    /\ pool = FALSE
    /\ uploadToken = "s3cret"
    /\ files = FsFiles

NextFs ==
    \/ \E c \in Clients, h \in AuthHeaders, f \in files \cup {Null},
          t \in FsClockReadings : FsPostUpload(c, h, f, t)
    \/ \E c \in Clients : FsUploadWritten(c)
    \/ \E c \in Clients : FsGetLatest(c)
    \/ \E c \in Clients : FsStream(c)

SpecFs == InitFs /\ [][NextFs]_vars

(***************************************************************************)
(* Properties of the filesystem service, checked under SpecFs.             *)
(***************************************************************************)
\* Uploads have followed one another (none was written while another was),
\* none is being written, and the one that finished last was answered 200.
FsSettledAfterPut ==
    /\ ~fsOverlap
    /\ FsWriting = {}
    /\ fsLastPut # Null
    /\ fsLastPut.ok

FsPointerNamesLastPut ==
    FsSettledAfterPut =>
        /\ readLatestMeta # Null
        /\ readLatestMeta.filename = fsLastPut.filename
        /\ fsLastPut.filename \in DOMAIN fsBlobs
        /\ fsBlobs[fsLastPut.filename] = fsLastPut.buffer

\* C10: uploads that follow one another leave latest.json naming the file of
\* the upload that finished last, and that file holding its bytes; a
\* GET /latest that streams the file the pointer names in such a state serves
\* those bytes, so after two uploads in a row those of the second and not
\* of the first.
C10_PointerNamesLastUpload ==
    [][/\ FsPointerNamesLastPut
       /\ FsPointerNamesLastPut'
       /\ FsSettledAfterPut =>
              \A c \in Clients :
                  (/\ fsSlot[c] # Null
                   /\ fsSlot[c].pc = "streaming"
                   /\ fsSlot'[c].pc = "done"
                   /\ fsSlot[c].filename = fsLastPut.filename)
                  => /\ fsSlot'[c].res.status = 200
                     /\ fsSlot'[c].res.body.bytes = fsLastPut.buffer]_vars

\* C10 witness: two uploads in a row with different names and content, both
\* written, the second answered 200, then a GET /latest answered with the
\* bytes of the second.
C10_Witness ==
    /\ FsSettledAfterPut
    /\ started = 3
    /\ \E n \in DOMAIN fsBlobs :
           n # fsLastPut.filename /\ fsBlobs[n] # fsLastPut.buffer
                                  /\ fsBlobs[n] # <<>>
    /\ \E c \in Clients :
           /\ fsSlot[c] # Null
           /\ fsSlot[c].kind = "latest"
           /\ fsSlot[c].pc = "done"
           /\ fsSlot[c].res.status = 200
           /\ fsSlot[c].res.body.bytes = fsLastPut.buffer

(***************************************************************************)
(* SpecEither: either service started by one client, one request after     *)
(* another.  The relational service has a backend configured; the          *)
(* filesystem service finds DATA_DIR as an earlier process left it, which  *)
(* ensureDir keeps (lines 259-265): empty, with a pointer and its file,    *)
(* with a pointer whose file is gone, or with a pointer cut short.         *)
(***************************************************************************)
OldFilename == DiskFilename(0 - 1, "my data.csv")

OldMeta ==
    [filename |-> OldFilename, originalName |-> "my data.csv",
     mimetype |-> "text/csv", size |-> 2, uploadedAt |-> 0 - 1]

OldBlobs == [n \in {OldFilename} |-> <<Semicolon, Comma>>]

FsDisks ==
    {[blobs |-> <<>>, pointer |-> Null],
     [blobs |-> OldBlobs, pointer |-> JsonStringify(OldMeta)],
     [blobs |-> <<>>, pointer |-> JsonStringify(OldMeta)],
     [blobs |-> OldBlobs, pointer |-> SubSeq(JsonStringify(OldMeta), 1, 2)],
     [blobs |-> OldBlobs, pointer |-> <<>>]}

InitEither ==
    /\ InitCommon
    /\ NoGuess
    /\ uploadToken = "s3cret"
    /\ \/ pool = TRUE /\ files = ServiceFiles /\ FreshDisk
       \/ /\ pool = FALSE
          /\ files = FsFiles
          /\ \E d \in FsDisks : fsBlobs = d.blobs /\ fsPointer = d.pointer

\* The relational service runs where the uploads are those of ServiceFiles,
\* the filesystem service where they are those of FsFiles.
Relational == files = ServiceFiles
Filesystem == files = FsFiles

NextEither ==
    \/ \E h \in AuthHeaders, f \in files \cup {Null} :
           Relational /\ PostUpload(1, h, f, Null)
    \/ Relational /\ GetLatest(1)
    \/ Relational /\ GetMeta(1)
    \/ Relational /\ AwaitInit(1)
    \/ \E o \in DbOutcomes : Relational /\ InitSettle(o)
    \/ Relational /\ InitWake
    \/ \E o \in DbOutcomes, t \in ClockReadings :
           Relational /\ QuerySettle(1, o, t)
    \/ Relational /\ QueryWake(1)
    \/ \E h \in AuthHeaders, f \in files \cup {Null}, t \in FsClockReadings :
           Filesystem /\ FsPostUpload(1, h, f, t)
    \/ Filesystem /\ FsUploadWritten(1)
    \/ Filesystem /\ FsGetLatest(1)
    \/ Filesystem /\ FsStream(1)

SpecEither == InitEither /\ [][NextEither]_vars

(***************************************************************************)
(* Properties of both services, checked under SpecEither.                  *)
(***************************************************************************)
PointerUnreadable == IF fsPointer = Null THEN TRUE ELSE ~JsonParses(fsPointer)

\* C11: GET /latest on a store that holds no record is answered 404 "No file
\* uploaded yet" and not with an error: by the relational service when its
\* select is answered and the table has no row, by the filesystem service
\* when latest.json does not exist or cannot be parsed.
C11_EmptyStoreIsNotFound ==
    [][\A c \in Clients :
          /\ (/\ PcOf(slot[c]) = "query"
              /\ slot[c].kind = "latest"
              /\ uploads = <<>>
              /\ QuerySettle(c, Ok(Null), now))
                 => /\ slot'[c].pc = "done"
                    /\ slot'[c].thrown = Null
                    /\ slot'[c].res = [status |-> 404, body |-> NoRecordYet]
          /\ (FsGetLatest(c) /\ PointerUnreadable)
                 => /\ fsSlot'[c].pc = "done"
                    /\ fsSlot'[c].res = [status |-> 404, body |-> NoRecordYet]]_vars

\* C11 witness: the filesystem service found a pointer cut short on disk and
\* answered GET /latest 404.
C11_Witness ==
    /\ Filesystem
    /\ fsPointer # Null
    /\ ~JsonParses(fsPointer)
    /\ PcOf(fsSlot[1]) = "done"
    /\ fsSlot[1].kind = "latest"
    /\ fsSlot[1].res = [status |-> 404, body |-> NoRecordYet]

\* The relational service answered GET /latest 404, its table empty.
RelationalNotFound ==
    /\ Relational
    /\ uploads = <<>>
    /\ PcOf(slot[1]) = "done"
    /\ slot[1].kind = "latest"
    /\ slot[1].res = [status |-> 404, body |-> NoRecordYet]

(***************************************************************************)
(* Further properties of the relational service, checked under Spec.       *)
(***************************************************************************)
\* The error the catch block of a request caught is transient.
CaughtTransient(s) ==
    IF s.thrown = Null THEN FALSE ELSE isTransientDbError(s.thrown)

CaughtFatal(s) ==
    IF s.thrown = Null THEN FALSE ELSE ~isTransientDbError(s.thrown)

\* No step of the backend is taken for client c: ensureDb is not called
\* and no query is sent.
NoBackendOperation(c) ==
    /\ dbInitPromise' = dbInitPromise
    /\ initStarts' = initStarts
    /\ createInFlight' = createInFlight
    /\ uploads' = uploads
    /\ slot'[c].initSeen = Null
    /\ slot'[c].thrown = Null

\* C12: POST /upload and GET /latest answer 503 exactly when the error that
\* surfaced is transient and 500 exactly when it is any other error.  The
\* error is the one the initialization was rejected with, or the one the
\* handler's withRetries threw: a non-transient error of any attempt, or the
\* transient error of the last attempt once all are used.  An unauthorized
\* upload is answered 401 and an authorized one without a file 400, both on
\* arrival, before ensureDb is called.
C12_OutcomeClassified ==
    [][/\ \A c \in Clients :
            (PcOf(slot'[c]) = "done" /\ slot'[c].kind \in {"upload", "latest"})
                => /\ slot'[c].res.status = 503 <=> CaughtTransient(slot'[c])
                   /\ slot'[c].res.status = 500 <=> CaughtFatal(slot'[c])
       /\ \A c \in Clients :
            (PcOf(slot[c]) = "awaitInit" /\ PcOf(slot'[c]) = "done")
                => /\ InitState = "rejected"
                   /\ slot'[c].thrown = dbInitPromise.value
       /\ \A c \in Clients :
            (PcOf(slot[c]) = "query" /\ PcOf(slot'[c]) = "done"
                 /\ slot'[c].thrown # Null)
                => /\ slot'[c].thrown = slot[c].w.lastErr
                       \/ slot[c].w.st = "inflight"
                   /\ CaughtTransient(slot'[c])
                          => /\ slot[c].w.i = QueryAttempts - 1
                             /\ slot[c].w.sleeps = QueryAttempts - 1
       /\ \A c \in Clients, h \in AuthHeaders, f \in files \cup {Null} :
            PostUpload(c, h, f, Null)
                => /\ ~isAuthorized(uploadToken, h)
                          => slot'[c].res.status = 401 /\ NoBackendOperation(c)
                   /\ (isAuthorized(uploadToken, h) /\ f = Null)
                          => slot'[c].res.status = 400 /\ NoBackendOperation(c)
                   /\ (isAuthorized(uploadToken, h) /\ f # Null)
                          => \/ slot'[c].pc = "awaitInit"
                             \/ slot'[c].res.status = 500]_vars

\* C12 witness: a request answered 503 after its query failed on all three
\* attempts, and another answered 500.
C12_Witness ==
    /\ \E c \in Clients :
           /\ PcOf(slot[c]) = "done"
           /\ slot[c].kind = "upload"
           /\ slot[c].initSeen = Ok(Null)
           /\ slot[c].res.status = 503
    /\ \E c \in Clients :
           /\ PcOf(slot[c]) = "done"
           /\ slot[c].kind = "latest"
           /\ slot[c].res.status = 500

(***************************************************************************)
(* SpecLive: the relational service where every call of the backend is     *)
(* answered, with a result or an error, every timer of sleep fires, and    *)
(* every handler whose awaited promise is settled is resumed.              *)
(***************************************************************************)
Fairness ==
    /\ WF_vars(\E o \in DbOutcomes : InitSettle(o))
    /\ WF_vars(InitWake)
    /\ \A c \in Clients :
           /\ WF_vars(AwaitInit(c))
           /\ WF_vars(\E o \in DbOutcomes, t \in ClockReadings :
                          QuerySettle(c, o, t))
           /\ WF_vars(QueryWake(c))

SpecLive == Init /\ [][Next]_vars /\ Fairness

\* A running withRetries call has invoked fn at most `attempts` times and
\* slept at most attempts-1 times.
WithinBudget(w) == WrCalls(w) <= w.attempts /\ w.sleeps <= w.attempts - 1

Running(c) == PcOf(slot[c]) \in {"awaitInit", "query"}

\* C13: the initialization stays within its 10 attempts and 9 delays and
\* every handler's withRetries within its 3 attempts and 2 delays; a request
\* has a response exactly when its handler is done, and that response is
\* not replaced; and, every backend call being answered, every request of
\* the relational service is answered in the end.
C13_EveryRequestAnswered ==
    /\ [](/\ InitState = "pending"
               => /\ dbInitPromise.w.attempts = InitAttempts
                  /\ WithinBudget(dbInitPromise.w)
          /\ \A c \in Clients :
                 /\ PcOf(slot[c]) = "query"
                        => /\ slot[c].w.attempts = QueryAttempts
                           /\ WithinBudget(slot[c].w)
                 /\ Running(c) => slot[c].res = Null
                 /\ PcOf(slot[c]) = "done" => slot[c].res # Null)
    /\ [][\A c \in Clients :
              (PcOf(slot[c]) = "done" /\ started' = started)
                  => slot'[c] = slot[c]]_vars
    /\ \A c \in Clients : Running(c) ~> (PcOf(slot[c]) = "done")

\* C13 witness: the initialization failed on all its 10 attempts and a
\* request that awaited it was answered 503.
C13_Witness ==
    /\ InitState = "rejected"
    /\ isTransientDbError(dbInitPromise.value)
    /\ \E c \in Clients :
           /\ PcOf(slot[c]) = "done"
           /\ slot[c].initSeen = Fail(dbInitPromise.value)
           /\ slot[c].res.status = 503

(***************************************************************************)
(* Further properties of the filesystem service, checked under SpecFs.     *)
(***************************************************************************)
PointerComplete == IF fsPointer = Null THEN TRUE ELSE JsonParses(fsPointer)

\* The upload of c is answered 200 in this step.
FsPutCompletes(c) ==
    /\ PcOf(fsSlot[c]) = "writing"
    /\ PcOf(fsSlot'[c]) = "done"
    /\ fsSlot'[c].res.status = 200

\* C14: latest.json is replaced in one step of the process.  It never holds
\* part of a document; it changes only in the step that answers an upload
\* 200, to the whole document of that upload's meta; and a GET /latest that
\* arrives while uploads are in progress reads the document as the last such
\* step left it: it answers "No file uploaded yet" only while no pointer has
\* been written, and otherwise goes on to the file that document names.
C14_PointerReplacedAtomically ==
    [][/\ PointerComplete
       /\ PointerComplete'
       /\ fsPointer' # fsPointer
              => \E c \in Clients :
                     /\ FsPutCompletes(c)
                     /\ fsPointer' = JsonStringify(fsSlot'[c].res.body.latest)
                     /\ readLatestMeta' = fsSlot'[c].res.body.latest
       /\ \A c \in Clients :
              FsGetLatest(c)
                  => IF fsPointer = Null
                     THEN /\ fsSlot'[c].pc = "done"
                          /\ fsSlot'[c].res = [status |-> 404, body |-> NoRecordYet]
                     ELSE /\ fsSlot'[c].pc = "streaming"
                          /\ fsSlot'[c].filename = JsonParse(fsPointer).filename
                          /\ fsSlot'[c].filename \in DOMAIN fsBlobs]_vars

\* C14 witness: a GET /latest that arrived while an upload was being written
\* read the pointer of the upload before, and the new upload has since
\* replaced that pointer.
C14_Witness ==
    /\ fsOverlap = FALSE
    /\ started = 3
    /\ readLatestMeta # Null
    /\ \E c \in Clients, d \in Clients :
           /\ PcOf(fsSlot[c]) = "streaming"
           /\ fsSlot[c].filename # readLatestMeta.filename
           /\ PcOf(fsSlot[d]) = "done"
           /\ fsSlot[d].kind = "upload"
           /\ fsSlot[d].res.status = 200
           /\ fsSlot[d].res.body.latest = readLatestMeta

\* The name multer's storage gives the file of the upload that arrives in
\* this step (lines 271-275), or Null when the step is no such arrival.
FsNewName(c) ==
    IF PcOf(fsSlot[c]) # "writing" /\ PcOf(fsSlot'[c]) = "writing"
    THEN fsSlot'[c].filename
    ELSE Null

\* A file of DATA_DIR that no upload in progress is writing.
FsAtRest(n) ==
    \A c \in Clients : PcOf(fsSlot[c]) = "writing" => fsSlot[c].filename # n

\* C15: every upload writes to a freshly named file: the name the storage
\* gives an arriving upload is the name of no file of DATA_DIR, of an
\* earlier upload or of one still being written, so the file of an earlier
\* upload keeps its bytes.
C15_FreshBlobNames ==
    [][/\ \A c \in Clients :
              FsNewName(c) # Null => FsNewName(c) \notin DOMAIN fsBlobs
       /\ \A n \in DOMAIN fsBlobs :
              FsAtRest(n) => n \in DOMAIN fsBlobs' /\ fsBlobs'[n] = fsBlobs[n]]_vars

(***************************************************************************)
(* The stale pointer, checked under SpecEither, where the filesystem       *)
(* service may find a latest.json whose file is gone.                      *)
(***************************************************************************)
StalePointer ==
    IF readLatestMeta = Null THEN FALSE
    ELSE readLatestMeta.filename \notin DOMAIN fsBlobs

\* C16: a GET /latest that finds latest.json naming a file that is not in
\* DATA_DIR is answered 404 "Latest file not found on disk", a body other
\* than the "No file uploaded yet" of the store without a record, and not
\* with a 5xx; that body is sent in no other case.
C16_StalePointerIsDistinctNotFound ==
    [][\A c \in Clients :
           FsGetLatest(c)
               => /\ StalePointer
                      => /\ fsSlot'[c].pc = "done"
                         /\ fsSlot'[c].res.status = 404
                         /\ fsSlot'[c].res.body = LatestNotOnDisk
                         /\ fsSlot'[c].res.body # NoRecordYet
                  /\ ~StalePointer
                      => fsSlot'[c].res # [status |-> 404,
                                           body |-> LatestNotOnDisk]]_vars

\* C16 witness: the pointer left on disk names a file that is gone, and the
\* third request, a GET /latest, was answered 404 "Latest file not found on
\* disk".
C16_Witness ==
    /\ Filesystem
    /\ StalePointer
    /\ started = 3
    /\ PcOf(fsSlot[1]) = "done"
    /\ fsSlot[1].kind = "latest"
    /\ fsSlot[1].res = [status |-> 404, body |-> LatestNotOnDisk]

(***************************************************************************)
(* Rows of the table, checked under Spec.                                  *)
(***************************************************************************)
\* The rows in the order they were committed have strictly increasing ids.
IdsIncrease(rows) ==
    \A j \in DOMAIN rows, k \in DOMAIN rows : j < k => rows[j].id < rows[k].id

\* C17: whatever the clients do (uploads, GET /latest, the count and the
\* meta routes, in any interleaving), a step adds at most one row to the
\* table and removes none; every row that was there keeps all its fields,
\* delimiter and has_header among them; a row is added only in the step
\* that answers an upload 200; and the id of the new row is greater than
\* the id of every row before it.
C17_RowsImmutableIdsIncrease ==
    [][/\ Len(uploads') \in {Len(uploads), Len(uploads) + 1}
       /\ \A k \in DOMAIN uploads :
              /\ uploads'[k] = uploads[k]
              /\ uploads'[k].delimiter = uploads[k].delimiter
              /\ uploads'[k].has_header = uploads[k].has_header
       /\ \A k \in DOMAIN uploads' \ DOMAIN uploads :
              \A j \in DOMAIN uploads : uploads'[k].id > uploads[j].id
       /\ IdsIncrease(uploads')
       /\ uploads' # uploads
              => \E c \in Clients : Answered200(c, "upload")]_vars

\* C17 witness: two rows of different files in the table, the second put by
\* one client and the meta route answered to the other since.
C17_Witness ==
    /\ Len(uploads) = 2
    /\ uploads[1].content # uploads[2].content
    /\ uploads[1].id < uploads[2].id
    /\ started = 3
    /\ \E c \in Clients, d \in Clients :
           /\ c # d
           /\ PcOf(slot[c]) = "done"
           /\ slot[c].kind = "meta"
           /\ slot[c].res.status = 200
           /\ slot[c].res.body.latest = MetaOf(uploads[2])
           /\ PcOf(slot[d]) = "done"
           /\ slot[d].kind = "upload"
           /\ slot[d].res.status = 200

(***************************************************************************)
(* SpecGuess: guessDelimiterFromContent called once, with no text or with  *)
(* any text of at most MaxText characters out of the delimiters, the line  *)
(* terminators and a letter.                                               *)
(***************************************************************************)
MaxText == 4

TextChars == {Comma, Semicolon, LF, CR, 97}

RECURSIVE TextsOfLength(_)
TextsOfLength(n) ==
    IF n = 0 THEN {<<>>}
    ELSE {<<ch>> \o t : ch \in TextChars, t \in TextsOfLength(n - 1)}

Texts == UNION {TextsOfLength(n) : n \in 0..MaxText}

GuessArgs ==
    {[given |-> FALSE, text |-> <<>>]}
        \cup {[given |-> TRUE, text |-> t] : t \in Texts}

InitGuess ==
    /\ InitCommon
    /\ FreshDisk
    /\ pool = TRUE
    /\ uploadToken = ""
    /\ files = {}
    /\ guessArg \in GuessArgs
    /\ guessed = <<>>

\* The call returns ";" or "," (lines 88-94).
Guess ==
    /\ guessed = <<>>
    /\ guessed' = <<guessDelimiterFromContent(ContentOrEmpty(guessArg))>>
    /\ UNCHANGED <<rt, dbVars, fsVars, guessArg>>

NextGuess == Guess

SpecGuess == InitGuess /\ [][NextGuess]_vars

\* The text given, the empty text when none is.
GuessText == IF guessArg.given THEN guessArg.text ELSE <<>>

\* The number of characters of the first line of text: those before the
\* first LF, all of them when there is no LF.  (A CR before that LF ends the
\* line one character earlier; it is neither delimiter.)
FirstLineEnd(text) ==
    IF \E k \in DOMAIN text : text[k] = LF
    THEN (CHOOSE k \in DOMAIN text :
              text[k] = LF /\ \A j \in 1..(k - 1) : text[j] # LF) - 1
    ELSE Len(text)

InFirstLine(text, ch) ==
    Cardinality({k \in 1..FirstLineEnd(text) : text[k] = ch})

\* C18: the call returns ";" exactly when the first line of the text, which
\* ends at the first line terminator (LF, or CR LF) or at the end of the
\* text, holds more ";" than ","; it returns "," otherwise: at a tie, for an
\* empty first line, for the empty text and for no text.  What follows the
\* first line does not count: the call on the first line alone returns the
\* same.
C18_DelimiterByFirstLine ==
    guessed # <<>> =>
        /\ guessed \in {<<Semicolon>>, <<Comma>>}
        /\ guessed = <<Semicolon>>
               <=> InFirstLine(GuessText, Semicolon) > InFirstLine(GuessText, Comma)
        /\ guessed = <<guessDelimiterFromContent(
                          SubSeq(GuessText, 1, FirstLineEnd(GuessText)))>>

\* C18 witness: a text whose first line is a tie and whose second line holds
\* a ";", for which the call returned ",".
C18_Witness ==
    /\ guessArg.given
    /\ guessArg.text = <<Semicolon, Comma, LF, Semicolon>>
    /\ guessed = <<Comma>>

(***************************************************************************)
(* The failed initialization, checked under Spec.                          *)
(***************************************************************************)
\* C19: once the initialization has failed (a fatal error, or the
\* starting-up error on all its 10 attempts), dbInitPromise keeps its
\* rejected promise: no step changes it, starts an initialization or sends
\* a create-table query, whatever the database would answer now; no request
\* gets to its query; and every request that awaits ensureDb() is answered
\* from the catch block with the error the promise was rejected with.
C19_FailedInitMemoized ==
    [][InitState = "rejected"
           => /\ dbInitPromise' = dbInitPromise
              /\ initStarts' = initStarts
              /\ createInFlight' = 0
              /\ tableExists' = FALSE
              /\ \A c \in Clients :
                     /\ PcOf(slot'[c]) # "query"
                     /\ SeenOf(slot'[c]) \in {Null, Fail(dbInitPromise.value)}
                     /\ (PcOf(slot[c]) = "awaitInit" /\ PcOf(slot'[c]) = "done")
                            => /\ slot'[c].thrown = dbInitPromise.value
                               /\ slot'[c].res.status =
                                      CatchStatus(slot[c].kind, dbInitPromise.value)]_vars

\* C19 witness: the initialization was rejected with the starting-up error
\* of its last attempt, and three requests have been made, the last of each
\* client answered 503 with that error.
C19_Witness ==
    /\ InitState = "rejected"
    /\ dbInitPromise.value = ErrStartingUp
    /\ initStarts = 1
    /\ started = 3
    /\ \A c \in Clients :
           /\ PcOf(slot[c]) = "done"
           /\ SeenOf(slot[c]) = Fail(ErrStartingUp)
           /\ slot[c].res.status = 503

(***************************************************************************)
(* The store after a rejected upload, checked under SpecEither.            *)
(***************************************************************************)
\* The POST /upload of client c is answered with `status` in this step.
UploadAnswered(old, new, status) ==
    /\ PcOf(new) = "done"
    /\ new # old
    /\ new.kind = "upload"
    /\ new.res.status = status

\* C20: the step that answers a POST /upload 401 or 400 leaves the store as
\* it was, in both services: no row inserted, no file of DATA_DIR created
\* or written, latest.json untouched.  In the relational service the step
\* that answers 200 has inserted one row, the step that answers 500 or 503
\* none, and no other step inserts a row.
C20_RejectedUploadLeavesStore ==
    [][\A c \in Clients :
           /\ \A st \in {400, 401, 500, 503} :
                  UploadAnswered(slot[c], slot'[c], st) => uploads' = uploads
           /\ UploadAnswered(slot[c], slot'[c], 200)
                  => Len(uploads') = Len(uploads) + 1
           /\ uploads' # uploads
                  => \E d \in Clients : UploadAnswered(slot[d], slot'[d], 200)
           /\ \A st \in {400, 401} :
                  UploadAnswered(fsSlot[c], fsSlot'[c], st)
                      => /\ fsBlobs' = fsBlobs
                         /\ fsPointer' = fsPointer
                         /\ PcOf(fsSlot[c]) # "writing"]_vars

====
